---- MODULE Spec2Model ----
(***************************************************************************)
(* A model of huffman_visualizer.py: the Huffman engine (Node,             *)
(* build_huffman_tree, assign_codes, the encoding of run_huffman_steps)    *)
(* and the frequency counter of HuffmanApp (run_animation,                 *)
(* animate_frequency_count and its step chain).                            *)
(*                                                                         *)
(* A Node is the record [char, freq, left, right]; a leaf has left and     *)
(* right None, an internal node has char NoChar.  A Python string of bits  *)
(* is a sequence of "0" and "1"; a dict is a function, and a dict whose    *)
(* insertion order matters (freq_map) is the sequence of its items.        *)
(***************************************************************************)
EXTENDS Integers, Sequences, FiniteSets, TLC

\* Bounds of the model.
MaxSymbols == 5
MaxFreq == 2
MaxLen == 3
MaxRuns == 2
MaxInput == 2

\* The symbols a frequency table may hold: the first MaxSymbols letters.
Letters == <<"a", "b", "c", "d", "e", "f", "g", "h">>
Symbols == {Letters[i] : i \in 1..MaxSymbols}

\* Python's None as a child or a root, and as the char of an internal node.
None == <<>>
NoChar == "None"

\* The characters of a message, besides the symbols: an upper-case letter,
\* which text.lower() folds, and a character no table holds.
TextChars == Symbols \cup {"A", "?"}

\* The characters typed into the entry of the application.
InputChars == {"a", "b", "A", " "}

VARIABLES
    freq_map,   \* build_huffman_tree's argument: the dict's items, in order
    heap,       \* the list heapq works on
    steps,      \* the merge trace
    root,       \* the first component of build_huffman_tree's result
    codes,      \* assign_codes' result
    pc,         \* where the run of the engine is
    text,       \* run_huffman_steps' text
    encoded,    \* run_huffman_steps' encoded
    freq_data,        \* HuffmanApp.freq_data
    text_to_process,  \* HuffmanApp.text_to_process
    char_index,       \* HuffmanApp.char_index
    tpc,        \* per Run press: where its thread, then its step chain, is
    ttext,      \* per Run press: the text its closures hold
    passed      \* per Run press: the table its callback was called with

engine == <<freq_map, heap, steps, root, codes, pc>>
enc == <<text, encoded>>
app == <<freq_data, text_to_process, char_index, tpc, ttext, passed>>
vars == <<freq_map, heap, steps, root, codes, pc, text, encoded,
          freq_data, text_to_process, char_index, tpc, ttext, passed>>

----------------------------------------------------------------------------
\* Node(char, freq): a fresh node has no children.
Node(char, freq) == [char |-> char, freq |-> freq, left |-> None, right |-> None]

\* Node.__lt__ with the comparison turned round.
Lt_reversed(self, other) == self.freq > other.freq

\* Node.__lt__: nodes are ordered by freq alone.
Lt(self, other) == self.freq < other.freq

\* list x with x[pos] = item, pos counted from 0 as in Python.
SetAt(x, pos, item) == [x EXCEPT ![pos + 1] = item]
At(x, pos) == x[pos + 1]

\* heapq._siftdown's loop: move newitem up from pos while it is less than its parent.
RECURSIVE SiftDownLoop(_, _, _, _)
SiftDownLoop(x, startpos, pos, newitem) ==
    IF pos > startpos
    THEN LET parentpos == (pos - 1) \div 2
             parent == At(x, parentpos)
         IN IF Lt(newitem, parent)
            THEN SiftDownLoop(SetAt(x, pos, parent), startpos, parentpos, newitem)
            ELSE SetAt(x, pos, newitem)
    ELSE SetAt(x, pos, newitem)

siftdown(x, startpos, pos) == SiftDownLoop(x, startpos, pos, At(x, pos))

\* heapq._siftup's loop: bubble the smaller child up until a leaf position is hit.
RECURSIVE SiftUpLoop(_, _)
SiftUpLoop(x, pos) ==
    LET endpos == Len(x)
        childpos == 2 * pos + 1
        rightpos == childpos + 1
        pick == IF rightpos < endpos /\ ~Lt(At(x, childpos), At(x, rightpos))
                THEN rightpos ELSE childpos
    IN IF childpos < endpos
       THEN SiftUpLoop(SetAt(x, pos, At(x, pick)), pick)
       ELSE <<x, pos>>

siftup(x, pos) ==
    LET newitem == At(x, pos)
        r == SiftUpLoop(x, pos)
    IN siftdown(SetAt(r[1], r[2], newitem), pos, r[2])

\* heapq.heapify: for i in reversed(range(n // 2)): _siftup(x, i).
RECURSIVE HeapifyFrom(_, _)
HeapifyFrom(x, i) == IF i < 0 THEN x ELSE HeapifyFrom(siftup(x, i), i - 1)

heapify(x) == HeapifyFrom(x, (Len(x) \div 2) - 1)

\* heappop that puts the last item at the top and leaves it there.
heappop_nosift(x) ==
    LET lastelt == x[Len(x)]
        rest == SubSeq(x, 1, Len(x) - 1)
    IN IF rest # <<>>
       THEN <<rest[1], SetAt(rest, 0, lastelt)>>
       ELSE <<lastelt, rest>>

\* heappop that reads the top item and leaves it in the list.
heappop_peek(x) == <<x[1], x>>

\* heapq.heappop: <<the item returned, the list afterwards>>.
heappop(x) ==
    LET lastelt == x[Len(x)]
        rest == SubSeq(x, 1, Len(x) - 1)
    IN IF rest # <<>>
       THEN <<rest[1], siftup(SetAt(rest, 0, lastelt), 0)>>
       ELSE <<lastelt, rest>>

\* heapq.heappush.
heappush(x, item) == siftdown(Append(x, item), 0, Len(x))

\* [Node(ch, freq) for ch, freq in freq_map.items()]: one leaf per item of
\* the dict, in the dict's order.
RECURSIVE Leaves(_)
Leaves(items) ==
    IF items = <<>> THEN <<>>
    ELSE <<Node(Head(items)[1], Head(items)[2])>> \o Leaves(Tail(items))

\* The loop body with a parent that weighs what its right child weighs.
MergeOnce_rightweight(h, s) ==
    LET p1 == heappop(h)
        left == p1[1]
        p2 == heappop(p1[2])
        right == p2[1]
        parent == [char |-> NoChar, freq |-> right.freq,
                   left |-> left, right |-> right]
    IN <<heappush(p2[2], parent), Append(s, <<left, right, parent.freq>>)>>

\* One pass of build_huffman_tree's while loop over <<heap, steps>>.
MergeOnce(h, s) ==
    LET p1 == heappop(h)
        left == p1[1]
        p2 == heappop(p1[2])
        right == p2[1]
        parent == [char |-> NoChar, freq |-> left.freq + right.freq,
                   left |-> left, right |-> right]
    IN <<heappush(p2[2], parent), Append(s, <<left, right, parent.freq>>)>>

\* build_huffman_tree's return value, first component.
RootOf(h) == IF h # <<>> THEN h[1] ELSE None

\* code_map[k] = v
Put(code_map, k, v) ==
    [x \in (DOMAIN code_map) \cup {k} |-> IF x = k THEN v ELSE code_map[x]]

\* assign_codes with "0" appended on both sides.
RECURSIVE assign_codes_samebit(_, _, _)
assign_codes_samebit(node, prefix, code_map) ==
    IF node # None
    THEN LET m1 == IF node.char # NoChar THEN Put(code_map, node.char, prefix)
                   ELSE code_map
             m2 == assign_codes_samebit(node.left, prefix \o <<"0">>, m1)
         IN assign_codes_samebit(node.right, prefix \o <<"0">>, m2)
    ELSE code_map

RECURSIVE assign_codes(_, _, _)
assign_codes(node, prefix, code_map) ==
    IF node # None
    THEN LET m1 == IF node.char # NoChar THEN Put(code_map, node.char, prefix)
                   ELSE code_map
             m2 == assign_codes(node.left, prefix \o <<"0">>, m1)
         IN assign_codes(node.right, prefix \o <<"1">>, m2)
    ELSE code_map

\* build_huffman_tree's while loop, run to its end: <<heap, steps>>.
RECURSIVE MergeAll(_, _)
MergeAll(h, s) ==
    IF Len(h) > 1
    THEN MergeAll(MergeOnce(h, s)[1], MergeOnce(h, s)[2])
    ELSE <<h, s>>

\* build_huffman_tree as a function of the dict's items: <<root, steps>>.
build_huffman_tree(items) ==
    LET r == MergeAll(heapify(Leaves(items)), <<>>)
    IN <<RootOf(r[1]), r[2]>>

\* str.lower() on one character.
LowerChar(ch) == IF ch = "A" THEN "a" ELSE ch

\* str.lower().
RECURSIVE Lower(_)
Lower(t) == IF t = <<>> THEN <<>> ELSE <<LowerChar(Head(t))>> \o Lower(Tail(t))

\* ''.join(codes[ch] for ch in text.lower() if ch in codes), from position i on.
RECURSIVE JoinFrom(_, _, _)
JoinFrom(t, code_map, i) ==
    IF i > Len(t) THEN <<>>
    ELSE (IF t[i] \in DOMAIN code_map THEN code_map[t[i]] ELSE <<>>)
         \o JoinFrom(t, code_map, i + 1)

encode(t, code_map) == JoinFrom(Lower(t), code_map, 1)

\* str.strip(): the text without its leading and trailing blanks.
RECURSIVE LStrip(_)
LStrip(t) == IF t # <<>> /\ Head(t) = " " THEN LStrip(Tail(t)) ELSE t

RECURSIVE RStrip(_)
RStrip(t) ==
    IF t # <<>> /\ t[Len(t)] = " " THEN RStrip(SubSeq(t, 1, Len(t) - 1)) ELSE t

Strip(t) == RStrip(LStrip(t))

\* {chr(i): 0 for i in range(ord('a'), ord('z')+1)}, over the model's letters.
ZeroCounts == [ch \in Symbols |-> 0]

----------------------------------------------------------------------------
\* The frequency tables: up to MaxSymbols items, each count in 0..MaxFreq
\* (the application's counter hands over zero counts for the letters the
\* text does not hold).  The item at position i of the dict has the i-th
\* letter as its symbol, as in the application's table; every order of the
\* counts is there.  Node.__lt__ never reads char, so the same counts at the
\* same positions under other distinct symbols run the same way.
Tables ==
    {[i \in 1..Len(f) |-> <<Letters[i], f[i]>>] :
        f \in UNION {[1..k -> 0..MaxFreq] : k \in 0..MaxSymbols}}

\* The messages handed to the encoder, and the contents of the entry.
SeqsUpTo(S, n) == UNION {[1..k -> S] : k \in 0..n}
Texts == SeqsUpTo(TextChars, MaxLen)
Inputs == SeqsUpTo(InputChars, MaxInput)
Runs == 1..MaxRuns

EngineInit ==
    /\ heap = <<>>
    /\ steps = <<>>
    /\ root = None
    /\ codes = <<>>
    /\ pc = "heapify"
    /\ text = <<>>
    /\ encoded = <<>>

AppInit ==
    /\ freq_data = <<>>
    /\ text_to_process = <<>>
    /\ char_index = 0
    /\ tpc = [r \in Runs |-> "idle"]
    /\ ttext = [r \in Runs |-> <<>>]
    /\ passed = [r \in Runs |-> <<>>]

\* build_huffman_tree is about to be called with some table.
Init ==
    /\ freq_map \in Tables
    /\ EngineInit
    /\ AppInit

\* Lines 23-25.
Heapify ==
    /\ pc = "heapify"
    /\ heap' = heapify(Leaves(freq_map))
    /\ steps' = <<>>
    /\ pc' = "loop"
    /\ UNCHANGED <<freq_map, root, codes, enc, app>>

\* Lines 27-34: one iteration of the loop.
Merge ==
    /\ pc = "loop"
    /\ Len(heap) > 1
    /\ heap' = MergeOnce(heap, steps)[1]
    /\ steps' = MergeOnce(heap, steps)[2]
    /\ UNCHANGED <<freq_map, root, codes, pc, enc, app>>

\* Line 36.
Return ==
    /\ pc = "loop"
    /\ ~(Len(heap) > 1)
    /\ root' = RootOf(heap)
    /\ pc' = "built"
    /\ UNCHANGED <<freq_map, heap, steps, codes, enc, app>>

\* Line 204.
AssignCodes ==
    /\ pc = "built"
    /\ codes' = assign_codes(root, <<>>, <<>>)
    /\ pc' = "coded"
    /\ UNCHANGED <<freq_map, heap, steps, root, enc, app>>

\* Line 208, for any message.
Encode ==
    /\ pc = "coded"
    /\ \E t \in Texts :
        /\ text' = t
        /\ encoded' = encode(t, codes)
    /\ pc' = "encoded"
    /\ UNCHANGED <<freq_map, heap, steps, root, codes, app>>

Next == Heapify \/ Merge \/ Return \/ AssignCodes

Spec == Init /\ [][Next]_vars

EncNext == Heapify \/ Merge \/ Return \/ AssignCodes \/ Encode

EncSpec == Init /\ [][EncNext]_vars

----------------------------------------------------------------------------
(***************************************************************************)
(* The frequency counter of the application.  Every press of Run starts a  *)
(* thread (line 122) that runs run_animation and, in it, the assignments   *)
(* of animate_frequency_count and the first call of step; every later call *)
(* of step is an after() callback of the main loop.  All of them work on   *)
(* the same three attributes of the one HuffmanApp.  The canvas calls      *)
(* between the statements let another thread run, so the statements        *)
(* interleave: lines 172, 173, 174, then per step lines 177-186 and lines  *)
(* 187-189.                                                                *)
(***************************************************************************)
AppStart ==
    /\ freq_map = <<>>
    /\ EngineInit
    /\ AppInit

\* Lines 121-122: the button starts a thread.
Press(r) ==
    /\ tpc[r] = "idle"
    /\ \A q \in Runs : q < r => tpc[q] # "idle"
    /\ tpc' = [tpc EXCEPT ![r] = "run"]
    /\ UNCHANGED <<engine, enc, freq_data, text_to_process, char_index, ttext, passed>>

\* Lines 124-134 up to the call of animate_frequency_count.
RunAnimation(r) ==
    /\ tpc[r] = "run"
    /\ \E input \in Inputs :
        LET t == Strip(input)
        IN IF t = <<>>
           THEN /\ tpc' = [tpc EXCEPT ![r] = "returned"]
                /\ UNCHANGED ttext
           ELSE /\ tpc' = [tpc EXCEPT ![r] = "freq_data"]
                /\ ttext' = [ttext EXCEPT ![r] = t]
    /\ UNCHANGED <<engine, enc, freq_data, text_to_process, char_index, passed>>

\* Line 172.
ResetFreqData(r) ==
    /\ tpc[r] = "freq_data"
    /\ freq_data' = ZeroCounts
    /\ tpc' = [tpc EXCEPT ![r] = "text_to_process"]
    /\ UNCHANGED <<engine, enc, text_to_process, char_index, ttext, passed>>

\* Line 173.
ResetText(r) ==
    /\ tpc[r] = "text_to_process"
    /\ text_to_process' = Lower(ttext[r])
    /\ tpc' = [tpc EXCEPT ![r] = "char_index"]
    /\ UNCHANGED <<engine, enc, freq_data, char_index, ttext, passed>>

\* Line 174.
ResetIndex(r) ==
    /\ tpc[r] = "char_index"
    /\ char_index' = 0
    /\ tpc' = [tpc EXCEPT ![r] = "step"]
    /\ UNCHANGED <<engine, enc, freq_data, text_to_process, ttext, passed>>

\* Lines 177-179: the count is over, the callback gets self.freq_data.
StepDone(r) ==
    /\ tpc[r] = "step"
    /\ char_index >= Len(text_to_process)
    /\ passed' = [passed EXCEPT ![r] = freq_data]
    /\ tpc' = [tpc EXCEPT ![r] = "callback"]
    /\ UNCHANGED <<engine, enc, freq_data, text_to_process, char_index, ttext>>

\* Lines 180-186: count the character at char_index.
StepCount(r) ==
    /\ tpc[r] = "step"
    /\ ~(char_index >= Len(text_to_process))
    /\ LET ch == text_to_process[char_index + 1]
       IN freq_data' = IF ch \in DOMAIN freq_data
                       THEN [freq_data EXCEPT ![ch] = @ + 1]
                       ELSE freq_data
    /\ tpc' = [tpc EXCEPT ![r] = "advance"]
    /\ UNCHANGED <<engine, enc, text_to_process, char_index, ttext, passed>>

\* Lines 187-189: move on and schedule the next call of step.
StepAdvance(r) ==
    /\ tpc[r] = "advance"
    /\ char_index' = char_index + 1
    /\ tpc' = [tpc EXCEPT ![r] = "step"]
    /\ UNCHANGED <<engine, enc, freq_data, text_to_process, ttext, passed>>

AppNext ==
    \E r \in Runs :
        \/ Press(r)
        \/ RunAnimation(r)
        \/ ResetFreqData(r)
        \/ ResetText(r)
        \/ ResetIndex(r)
        \/ StepDone(r)
        \/ StepCount(r)
        \/ StepAdvance(r)

AppSpec == AppStart /\ [][AppNext]_vars

----------------------------------------------------------------------------
\* What the formulas below speak of.
n == Len(freq_map)
TableSymbols == {freq_map[i][1] : i \in 1..n}
IsPrefix(p, q) == Len(p) <= Len(q) /\ SubSeq(q, 1, Len(p)) = p
InternalNode(a, b) ==
    [char |-> NoChar, freq |-> a.freq + b.freq, left |-> a, right |-> b]
InList(x, node) == \E i \in 1..Len(x) : x[i] = node

RECURSIVE SumFreq(_, _)
SumFreq(items, i) == IF i > Len(items) THEN 0 ELSE items[i][2] + SumFreq(items, i + 1)

\* Every internal node of the tree weighs what its two children weigh together.
RECURSIVE WeightOK(_)
WeightOK(node) ==
    \/ node = None
    \/ node.left = None /\ node.right = None
    \/ /\ node.left # None /\ node.right # None
       /\ node.freq = node.left.freq + node.right.freq
       /\ WeightOK(node.left) /\ WeightOK(node.right)

\* The weighted path length of a code table for the table of frequencies.
RECURSIVE WPLFrom(_, _, _)
WPLFrom(items, code_map, i) ==
    IF i > Len(items) THEN 0
    ELSE items[i][2] * Len(code_map[items[i][1]]) + WPLFrom(items, code_map, i + 1)

\* The least weighted path length of a full binary tree over leaves of the
\* weights ws: every such tree has two sibling leaves i and j, and costs
\* ws[i] + ws[j] more than the tree with the pair made one leaf.
Without(ws, i, j) ==
    SubSeq(ws, 1, i - 1) \o SubSeq(ws, i + 1, j - 1) \o SubSeq(ws, j + 1, Len(ws))

RECURSIVE Weights(_)
Weights(items) == IF items = <<>> THEN <<>> ELSE <<Head(items)[2]>> \o Weights(Tail(items))

Least(S) == CHOOSE m \in S : \A k \in S : m <= k

RECURSIVE MinWPL(_)
MinWPL(ws) ==
    IF Len(ws) <= 1 THEN 0
    ELSE Least({ws[i] + ws[j] + MinWPL(Append(Without(ws, i, j), ws[i] + ws[j])) :
                   <<i, j>> \in {p \in (1..Len(ws)) \X (1..Len(ws)) : p[1] < p[2]}})

\* A decoder walking the prefix tree: a bit chooses a child, a leaf emits
\* its symbol and sends the walk back to the root.
RECURSIVE Decode(_, _, _)
Decode(bits, node, tree) ==
    IF bits = <<>> \/ node = None THEN <<>>
    ELSE LET child == IF Head(bits) = "0" THEN node.left ELSE node.right
         IN IF child = None THEN <<>>
            ELSE IF child.char # NoChar
                 THEN <<child.char>> \o Decode(Tail(bits), tree, tree)
                 ELSE Decode(Tail(bits), child, tree)

\* The symbols of a message that the code table holds, in order.
RECURSIVE PresentFrom(_, _, _)
PresentFrom(t, code_map, i) ==
    IF i > Len(t) THEN <<>>
    ELSE (IF t[i] \in DOMAIN code_map THEN <<t[i]>> ELSE <<>>)
         \o PresentFrom(t, code_map, i + 1)

\* The same items in every order.
RECURSIVE Orders(_)
Orders(items) ==
    IF items = <<>> THEN {<<>>}
    ELSE UNION {{<<items[i]>> \o t :
                    t \in Orders(SubSeq(items, 1, i - 1) \o SubSeq(items, i + 1, Len(items)))} :
                i \in 1..Len(items)}

\* The number of times each letter occurs in a text.
Occurrences(t) == [ch \in Symbols |-> Cardinality({i \in 1..Len(t) : t[i] = ch})]

\* C1: for a table of at least 2 symbols the code table holds one code per
\* symbol of the table, and no symbol's code is a prefix of, or equal to,
\* another symbol's code.
C1_PrefixFree ==
    (pc = "coded" /\ n >= 2) =>
        /\ DOMAIN codes = TableSymbols
        /\ \A s, t \in TableSymbols : s # t => ~IsPrefix(codes[s], codes[t])

C1_Witness ==
    /\ pc = "coded"
    /\ n >= 4
    /\ \A i \in 1..n : freq_map[i][2] >= 1
    /\ \E s, t \in DOMAIN codes : Len(codes[s]) < Len(codes[t])

\* C2: for a table of one symbol s with count >= 1 the root is that leaf, the
\* trace is empty and the code table is {s: "0"}.
C2_SingleSymbolCode ==
    (pc = "coded" /\ n = 1 /\ freq_map[1][2] >= 1) =>
        /\ root = Node(freq_map[1][1], freq_map[1][2])
        /\ steps = <<>>
        /\ codes = [s \in {freq_map[1][1]} |-> <<"0">>]

\* C3: every pass of the loop takes out the two lightest nodes of the queue,
\* a lightest one first (a), then a lightest of the rest (b), makes them the
\* left and the right child of a new node, puts that node into the queue and
\* appends (a, b, a.weight + b.weight) to the trace.
C3_Pass ==
    (pc = "loop" /\ Len(heap) > 1) =>
        /\ Len(steps') = Len(steps) + 1
        /\ LET a == steps'[Len(steps')][1]
               b == steps'[Len(steps')][2]
           IN /\ steps' = Append(steps, <<a, b, a.freq + b.freq>>)
              /\ InList(heap, a) /\ InList(heap, b) /\ a # b
              /\ \A i \in 1..Len(heap) : a.freq <= heap[i].freq
              /\ \A i \in 1..Len(heap) : heap[i] # a => b.freq <= heap[i].freq
              /\ a.freq <= b.freq
              /\ Len(heap') = Len(heap) - 1
              /\ InList(heap', InternalNode(a, b))
              /\ \A i \in 1..Len(heap) :
                    heap[i] \notin {a, b} => InList(heap', heap[i])
              /\ \A i \in 1..Len(heap') :
                    heap'[i] # InternalNode(a, b) => InList(heap, heap'[i])

C3_TwoLowest == [][C3_Pass]_vars

C3_Witness ==
    /\ pc = "loop"
    /\ \E k \in 2..Len(steps) :
        /\ steps[k][1].char = NoChar \/ steps[k][2].char = NoChar
        /\ steps[k][1].freq = steps[k][2].freq
    /\ \A i \in 1..n : freq_map[i][2] >= 1

\* C4: for a table of at least 2 symbols the weighted path length of the
\* codes is the least one of any full binary tree over the same symbols.
C4_Optimal ==
    (pc = "coded" /\ n >= 2) =>
        WPLFrom(freq_map, codes, 1) = MinWPL(Weights(freq_map))

C4_Witness ==
    /\ pc = "coded"
    /\ n >= 4
    /\ \A i \in 1..n : freq_map[i][2] >= 1
    /\ \E i, j \in 1..n : freq_map[i][2] < freq_map[j][2]
    /\ \E s, t \in DOMAIN codes : Len(codes[s]) < Len(codes[t])

\* C5: for a non-empty table, decoding the encoded bits with the prefix tree
\* gives the symbols of the message that the code table holds, in order.
C5_RoundTrip ==
    (pc = "encoded" /\ n >= 1) =>
        Decode(encoded, root, root) = PresentFrom(Lower(text), codes, 1)

\* C6: every merge step records the sum of its two nodes' weights, every
\* internal node weighs the sum of its children, and the root of a non-empty
\* table weighs the sum of all the frequencies.
C6_WeightConservation ==
    /\ \A i \in 1..Len(steps) : steps[i][3] = steps[i][1].freq + steps[i][2].freq
    /\ \A i \in 1..Len(heap) : WeightOK(heap[i])
    /\ WeightOK(root)
    /\ (pc \in {"built", "coded"} /\ n >= 1) => root.freq = SumFreq(freq_map, 1)

C6_Witness ==
    /\ pc = "built"
    /\ Len(steps) >= 3
    /\ \A i \in 1..n : freq_map[i][2] >= 1
    /\ root.left.char = NoChar /\ root.right.char = NoChar

\* C7: for a table of counts >= 1 the code table and the trace are those of
\* every other order of the same table's entries.
C7_OrderIndependent ==
    (pc = "coded" /\ \A i \in 1..n : freq_map[i][2] >= 1) =>
        \A t \in Orders(freq_map) :
            /\ build_huffman_tree(t)[2] = steps
            /\ assign_codes(build_huffman_tree(t)[1], <<>>, <<>>) = codes

\* C8: a table with a count <= 0 is rejected: no leaf, no tree, no trace and
\* no code come of it.
C8_Rejected ==
    (\E i \in 1..n : freq_map[i][2] <= 0) =>
        /\ heap = <<>>
        /\ steps = <<>>
        /\ root = None
        /\ codes = <<>>

\* C9: the loop ends: in every state the loop can be in, a pass makes the
\* queue one shorter and the trace one longer, and the loop is left once the
\* queue holds at most one node, so a queue of n nodes is down to one after
\* exactly n - 1 passes; at the end the trace has n - 1 steps (none for
\* n <= 1) and the queue holds the root alone (nothing for n = 0, where the
\* root is absent and the code table empty).
C9_Terminates ==
    /\ pc = "loop" => Len(heap) + Len(steps) = n
    /\ (pc = "loop" /\ Len(heap) > 1) =>
        /\ Len(MergeOnce(heap, steps)[1]) = Len(heap) - 1
        /\ Len(MergeOnce(heap, steps)[2]) = Len(steps) + 1
    /\ pc \in {"built", "coded"} =>
        /\ Len(steps) = IF n <= 1 THEN 0 ELSE n - 1
        /\ Len(heap) = IF n >= 1 THEN 1 ELSE 0
        /\ root = IF n >= 1 THEN heap[1] ELSE None
    /\ (pc = "coded" /\ n = 0) => codes = <<>>

C9_Witness ==
    /\ pc = "coded"
    /\ n >= 4
    /\ \A i \in 1..n : freq_map[i][2] >= 1
    /\ Len(steps) = n - 1
    /\ Len(heap) = 1

\* C10: the table a counting callback is called with holds, for every
\* letter, the number of its occurrences in the lowercased text of the run
\* the callback belongs to.
C10_OwnTextCounted ==
    \A r \in Runs : tpc[r] = "callback" => passed[r] = Occurrences(Lower(ttext[r]))
====
